---- MODULE Spec2Model ----
(***************************************************************************)
(* ButtonGroup (mineral-ui): selection state of a group of toggleable      *)
(* Buttons, controlled or uncontrolled, as implemented by the component    *)
(* class in src/src/website/app/demos/ButtonGroup/examples/variants.js     *)
(* (lines 176-510).                                                        *)
(*                                                                         *)
(* JavaScript values of type  number | Array<number> | void  are records   *)
(* [t, n, a]: t is the runtime type tag, n the number, a the array.        *)
(* Child indices are 0-based as in the source; TLA+ sequences are 1-based, *)
(* so child i is props.children[i + 1] and array slot k is a[k + 1].       *)
(***************************************************************************)
EXTENDS Integers, Sequences, FiniteSets, TLC

\* Largest number of Button children a group is mounted with.
MaxChildren == 2

\* Longest array passed as the `checked` / `defaultChecked` prop.
MaxDefaultLen == 2

VARIABLES
  props,    \* this.props: mode, children, checked, defaultChecked, disabled, variant, onChange, onClick
  state,    \* this.state: [checked]
  pc,       \* "idle" | "setState" (updater queued) | "callback" (state committed, callback queued)
  pending,  \* the queued setState of the click in progress: data-index attribute, `changed`, callback
  calls,    \* group-level callbacks invoked by the latest click, in order, each with the state it observed
  pre,      \* history: state.checked when the latest click began
  idx,      \* history: index of the latest clicked child, -1 before any click
  initial,  \* history: state.checked as constructed
  mounted,  \* history: props.children at construction
  odd       \* history: children clicked an odd number of times (uncontrolled checkbox groups)

vars == <<props, state, pc, pending, calls, pre, idx, initial, mounted, odd>>

----------------------------------------------------------------------------
\* JavaScript values

Undef == [t |-> "undef", n |-> 0, a |-> <<>>]
Num(k) == [t |-> "num", n |-> k, a |-> <<>>]
Arr(s) == [t |-> "arr", n |-> 0, a |-> s]

\* Array.isArray(v)
IsArray(v) == v.t = "arr"

\* ToBoolean(v): undefined and 0 are falsy, every array is truthy.
Truthy(v) == v.t = "arr" \/ (v.t = "num" /\ v.n # 0)

\* a || b
Or(a, b) == IF Truthy(a) THEN a ELSE b

Range(s) == {s[k] : k \in 1..Len(s)}

\* Array.prototype.indexOf: 0-based position of the first x, -1 when absent.
indexOf(s, x) ==
  IF \E k \in 1..Len(s) : s[k] = x
    THEN (CHOOSE k \in 1..Len(s) : s[k] = x /\ \A j \in 1..(k - 1) : s[j] # x) - 1
    ELSE -1

\* Array.prototype.splice(i, 1): the array without slot i.
splice1(s, i) == SubSeq(s, 1, i) \o SubSeq(s, i + 2, Len(s))

\* String(index), the value of the data-index attribute: decimal digits.
RECURSIVE ToDigits(_)
ToDigits(k) == IF k < 10 THEN <<k>> ELSE Append(ToDigits(k \div 10), k % 10)

\* parseInt(attr): base-10 value of a digit string.
RECURSIVE parseInt(_)
parseInt(d) ==
  IF Len(d) = 0 THEN 0
  ELSE 10 * parseInt(SubSeq(d, 1, Len(d) - 1)) + d[Len(d)]

\* toArray from ../utils/collections: an array is returned as is, any other
\* value is wrapped in a one-element array.
toArray(v) == IF IsArray(v) THEN v.a ELSE <<v.n>>

----------------------------------------------------------------------------
\* Helpers of the component

\* The indices held by a value of type number | Array<number> | void.
Selection(v) ==
  IF v.t = "arr" THEN Range(v.a) ELSE IF v.t = "num" THEN {v.n} ELSE {}

isCheckedAfterFirst(checked, index) ==
  IF IsArray(checked)
    THEN indexOf(checked.a, index) > 0
    ELSE checked.t = "num" /\ checked.n = index

isChecked(checked, index) ==
  IF IsArray(checked)
    THEN indexOf(checked.a, index) # -1
    ELSE checked.t = "num" /\ checked.n = index

\* props.children is an array only when the group has several children; a
\* lone child is passed as the element itself.
childrenIsArray(p) == Len(p.children) >= 2

\* Indices of the children at positions k.. whose defaultChecked is set.
RECURSIVE defaultIndicesFrom(_, _)
defaultIndicesFrom(children, k) ==
  IF k > Len(children) THEN <<>>
  ELSE (IF children[k].defaultChecked THEN <<k - 1>> ELSE <<>>)
         \o defaultIndicesFrom(children, k + 1)

findDefaultChecked(p) ==
  IF p.mode = "checkbox"
    THEN IF childrenIsArray(p)
           THEN Arr(defaultIndicesFrom(p.children, 1))
           ELSE Arr(<<>>)
    ELSE IF childrenIsArray(p)
           THEN LET found == defaultIndicesFrom(p.children, 1)
                    index == IF Len(found) > 0 THEN found[1] ELSE -1
                IN  IF index # -1 THEN Arr(<<index>>) ELSE Arr(<<>>)
           ELSE Arr(<<>>)

\* The class field  state = { checked: ... }.
initialState(p) ==
  [checked |-> Or(Or(p.defaultChecked, findDefaultChecked(p)), Num(-1))]

isControlledNever(p) == FALSE

\* this.isControlled('checked'): the prop is present.
isControlled(p) == p.checked.t # "undef"

getControllableValue(p, st) == IF isControlled(p) THEN p.checked ELSE st.checked

\* render(): the aria-checked flag given to child `index`, absent (FALSE
\* here) when the child is not toggleable.
isChildToggleable(p) == p.mode = "radio" \/ p.mode = "checkbox"
ariaChecked(p, st, index) ==
  isChildToggleable(p) /\ isChecked(getControllableValue(p, st), index)

decoratedDisabledChildOnly(p, index) == p.children[index + 1].disabled

\* render(): disabled: disabled || child.props.disabled
decoratedDisabled(p, index) == p.disabled \/ p.children[index + 1].disabled

\* render(): ...(variant ? { variant } : undefined) is spread over the child's
\* own props by cloneElement; "none" stands for an unset variant.
decoratedVariant(p, index) ==
  IF p.variant # "none" THEN p.variant ELSE p.children[index + 1].variant

\* render(): the props child `index` is rendered with after cloneElement.
\* An attribute the group does not pass is "absent"; `primary` is passed
\* only as true.
decorate(p, st, index) ==
  [ariaChecked |-> IF isChildToggleable(p)
                     THEN (IF ariaChecked(p, st, index) THEN "true" ELSE "false")
                     ELSE "absent",
   dataIndex   |-> index,
   disabled    |-> decoratedDisabled(p, index),
   primary     |-> isChildToggleable(p) /\ isChecked(getControllableValue(p, st), index),
   role        |-> IF isChildToggleable(p) THEN p.mode ELSE "absent",
   variant     |-> decoratedVariant(p, index)]

\* Children decorated as checked by render().
CheckedChildren == {i \in 0..(Len(props.children) - 1) : ariaChecked(props, state, i)}

----------------------------------------------------------------------------
\* Props a group can be mounted with

Modes == {"none", "radio", "checkbox"}

IndexArrays(n) ==
  {s \in UNION {[1..l -> 0..(n - 1)] : l \in 0..MaxDefaultLen} :
     \A j, k \in 1..Len(s) : j # k => s[j] # s[k]}

CheckedValues(n) ==
  {Undef} \cup {Num(k) : k \in 0..(n - 1)} \cup {Arr(s) : s \in IndexArrays(n)}

\* Buttons that set neither `disabled` nor `variant`.
ChildrenOf(n) == [1..n -> [defaultChecked : BOOLEAN, disabled : {FALSE}, variant : {"none"}]]

\* Groups that set neither `disabled` nor `variant`.
PropsOf(n) ==
  [mode : Modes, children : ChildrenOf(n), checked : CheckedValues(n),
   defaultChecked : CheckedValues(n), disabled : {FALSE}, variant : {"none"},
   onChange : BOOLEAN, onClick : BOOLEAN]

\* Values of the `variant` prop of a group or a Button, unset included.
Variants == {"none", "danger", "success"}

\* Buttons with their own `disabled` and `variant`.
StyledChildrenOf(n) ==
  [1..n -> [defaultChecked : {FALSE}, disabled : BOOLEAN, variant : Variants]]

\* Groups with `disabled` and `variant`, uncontrolled or controlled with
\* child 0 checked, both callbacks supplied.
StyledPropsOf(n) ==
  [mode : Modes, children : StyledChildrenOf(n), checked : {Undef, Num(0)},
   defaultChecked : {Undef}, disabled : BOOLEAN, variant : Variants,
   onChange : {TRUE}, onClick : {TRUE}]

NoPending == [attr |-> <<>>, changed |-> TRUE, callback |-> FALSE]

\* A group is mounted controlled (`checked`) or with a group-level default
\* (`defaultChecked`), as the props' documentation pairs them, never both.
Init ==
  /\ props \in UNION {PropsOf(n) : n \in 1..MaxChildren}
  /\ props.checked = Undef \/ props.defaultChecked = Undef
  /\ state = initialState(props)
  /\ pc = "idle"
  /\ pending = NoPending
  /\ calls = <<>>
  /\ pre = state.checked
  /\ idx = -1
  /\ initial = state.checked
  /\ mounted = props.children
  /\ odd = {}

\* Construction of a group whose Buttons and root set `disabled` and `variant`.
InitStyled ==
  /\ props \in UNION {StyledPropsOf(n) : n \in 1..MaxChildren}
  /\ state = initialState(props)
  /\ pc = "idle"
  /\ pending = NoPending
  /\ calls = <<>>
  /\ pre = state.checked
  /\ idx = -1
  /\ initial = state.checked
  /\ mounted = props.children
  /\ odd = {}

----------------------------------------------------------------------------
\* Event handling

clickActionsClickOnlyIfChanged(changed) ==
  (IF changed /\ props.onClick THEN <<[cb |-> "onClick", seen |-> state.checked]>> ELSE <<>>)
    \o (IF changed /\ props.onChange
          THEN <<[cb |-> "onChange", seen |-> state.checked]>> ELSE <<>>)

\* clickActions(event, changed): the callbacks invoked, in order; each entry
\* records this.state.checked at the time of the call.
clickActions(changed) ==
  (IF props.onClick THEN <<[cb |-> "onClick", seen |-> state.checked]>> ELSE <<>>)
    \o (IF changed /\ props.onChange
          THEN <<[cb |-> "onChange", seen |-> state.checked]>> ELSE <<>>)

updaterNeverSplices(prevChecked, mode, attr) ==
  IF mode = "checkbox"
    THEN LET checked == toArray(prevChecked)
             i == indexOf(checked, parseInt(attr))
         IN  [checked |-> Arr(IF i = -1 THEN Append(checked, parseInt(attr)) ELSE checked),
              changed |-> TRUE]
    ELSE [checked |-> Num(parseInt(attr)),
          changed |-> IF Len(toArray(prevChecked)) = 0 THEN TRUE
                      ELSE toArray(prevChecked)[1] # parseInt(attr)]

updaterRadioToggles(prevChecked, mode, attr) ==
  IF mode = "checkbox"
    THEN LET checked == toArray(prevChecked)
             i == indexOf(checked, parseInt(attr))
         IN  [checked |-> Arr(IF i = -1 THEN Append(checked, parseInt(attr))
                                        ELSE splice1(checked, i)),
              changed |-> TRUE]
    ELSE [checked |-> IF isChecked(prevChecked, parseInt(attr))
                        THEN Arr(<<>>) ELSE Num(parseInt(attr)),
          changed |-> TRUE]

\* The updater passed to setState: the next state.checked, and the value the
\* closure variable `changed` has once the updater has run.
updater(prevChecked, mode, attr) ==
  IF mode = "checkbox"
    THEN LET checked == toArray(prevChecked)
             i == indexOf(checked, parseInt(attr))
             hasValue == i # -1
         IN  [checked |-> Arr(IF ~hasValue THEN Append(checked, parseInt(attr))
                                           ELSE splice1(checked, i)),
              changed |-> TRUE]
    ELSE LET checked == parseInt(attr)
             prev == toArray(prevChecked)
         IN  [checked |-> Num(checked),
              \* toArray(prevState.checked)[0] is undefined for an empty array
              changed |-> IF Len(prev) = 0 THEN TRUE ELSE prev[1] # checked]

handleClickNoModeNotifies(index) ==
  /\ props.mode = "none"
  /\ calls' = clickActions(TRUE)
  /\ UNCHANGED <<state, pc, pending, odd>>

\* if (!mode) return this.clickActions(event, false)
handleClickNoMode(index) ==
  /\ props.mode = "none"
  /\ calls' = clickActions(FALSE)
  /\ UNCHANGED <<state, pc, pending, odd>>

\* if (this.isControlled('checked')) this.clickActions(event)
handleClickControlled(index) ==
  /\ props.mode # "none"
  /\ isControlled(props)
  /\ calls' = clickActions(TRUE)
  /\ UNCHANGED <<state, pc, pending, odd>>

handleClickUncontrolledSync(index) ==
  /\ props.mode # "none"
  /\ ~isControlled(props)
  /\ calls' = clickActions(TRUE)
  /\ pending' = [attr |-> ToDigits(index), changed |-> TRUE, callback |-> FALSE]
  /\ pc' = "setState"
  /\ odd' = IF props.mode = "checkbox"
              THEN (odd \ {index}) \cup ({index} \ odd) ELSE odd
  /\ UNCHANGED state

\* else { let changed = true; this.setState(updater, callback) }: both are
\* queued; neither has run when handleClick returns.
handleClickUncontrolled(index) ==
  /\ props.mode # "none"
  /\ ~isControlled(props)
  /\ calls' = <<>>
  /\ pending' = [attr |-> ToDigits(index), changed |-> TRUE, callback |-> TRUE]
  /\ pc' = "setState"
  /\ odd' = IF props.mode = "checkbox"
              THEN (odd \ {index}) \cup ({index} \ odd) ELSE odd
  /\ UNCHANGED state

\* A click on child `index`, which render() bound to handleClick and tagged
\* with data-index.
handleClick(index) ==
  /\ pc = "idle"
  /\ index \in 0..(Len(props.children) - 1)
  /\ pre' = state.checked
  /\ idx' = index
  /\ \/ handleClickNoMode(index)
     \/ handleClickControlled(index)
     \/ handleClickUncontrolled(index)
  /\ UNCHANGED <<props, initial, mounted>>

\* React runs the queued updater on the previous state and commits its result.
applyUpdate ==
  /\ pc = "setState"
  /\ LET r == updater(state.checked, props.mode, pending.attr)
     IN  /\ state' = [checked |-> r.checked]
         /\ pending' = [pending EXCEPT !.changed = r.changed]
  /\ pc' = "callback"
  /\ UNCHANGED <<props, calls, pre, idx, initial, mounted, odd>>

\* React runs the setState callback after the commit:
\* () => { this.clickActions(event, changed) }
runCallback ==
  /\ pc = "callback"
  /\ calls' = IF pending.callback THEN calls \o clickActions(pending.changed) ELSE calls
  /\ pending' = NoPending
  /\ pc' = "idle"
  /\ UNCHANGED <<props, state, pre, idx, initial, mounted, odd>>

\* The parent re-renders the mounted group without its last child.  The
\* class field `state` is evaluated at construction only, and no lifecycle
\* method revisits it.
removeChild ==
  /\ pc = "idle"
  /\ Len(props.children) > 1
  /\ props' = [props EXCEPT !.children = SubSeq(props.children, 1, Len(props.children) - 1)]
  /\ UNCHANGED <<state, pc, pending, calls, pre, idx, initial, mounted, odd>>

\* The user activates child `index`.  A Button rendered with disabled = true
\* is a disabled <button>, for which the browser dispatches no click event.
click(index) ==
  /\ index \in 0..(Len(props.children) - 1)
  /\ ~decoratedDisabled(props, index)
  /\ handleClick(index)

Next ==
  \/ \E index \in 0..(MaxChildren - 1) : click(index)
  \/ applyUpdate
  \/ runCallback
  \/ removeChild

Spec == Init /\ [][Next]_vars

\* The same component, mounted with `disabled` and `variant` props.
SpecStyled == InitStyled /\ [][Next]_vars

----------------------------------------------------------------------------
\* Vocabulary of the properties

Uncontrolled == props.checked.t = "undef"
Controlled == props.checked.t # "undef"
ModeSet == props.mode \in {"radio", "checkbox"}
ChildIndices == 0..(Len(props.children) - 1)
SymDiff(A, B) == (A \ B) \cup (B \ A)
Invoked(cb) == {k \in 1..Len(calls) : calls[k].cb = cb}
ClickDone == pc = "idle" /\ idx # -1
ResolvedSelection == Selection(IF Controlled THEN props.checked ELSE state.checked)

\* C1: in an uncontrolled checkbox group each click on child idx flips the
\* membership of idx in the Selection and of no other index, so the Selection
\* is the initial Selection with the indices clicked an odd number of times
\* flipped, whatever the order of the clicks.
C1_CheckboxToggle ==
  (props.mode = "checkbox" /\ Uncontrolled /\ pc # "setState") =>
    /\ idx # -1 => Selection(state.checked) = SymDiff(Selection(pre), {idx})
    /\ Selection(state.checked) = SymDiff(Selection(initial), odd)
    /\ IsArray(state.checked) => Cardinality(Range(state.checked.a)) = Len(state.checked.a)

C1_Witness ==
  /\ props.mode = "checkbox" /\ Uncontrolled /\ pc = "idle"
  /\ Cardinality(odd) = 2
  /\ Selection(initial) \cap odd # {}
  /\ Selection(state.checked) \ Selection(initial) # {}

\* C2: in an uncontrolled radio group the Selection after a click on child
\* idx is exactly {idx}; a click on the selected child leaves the Selection
\* as it was and does not invoke onChange; a click on a child that was not
\* selected invokes onChange.
C2_RadioSingleton ==
  (props.mode = "radio" /\ Uncontrolled /\ ClickDone) =>
    /\ Selection(state.checked) = {idx}
    /\ Selection(pre) = {idx} =>
         (Selection(state.checked) = Selection(pre) /\ Invoked("onChange") = {})
    /\ (idx \notin Selection(pre) /\ props.onChange) =>
         Cardinality(Invoked("onChange")) = 1

C2_Witness ==
  /\ props.mode = "radio" /\ Uncontrolled /\ ClickDone
  /\ props.onChange /\ props.onClick
  /\ Selection(pre) = {idx} /\ idx > 0
  /\ Len(calls) = 1

\* C3: in an uncontrolled group with a mode set, onChange is invoked for a
\* click if and only if the Selection after the click differs from the
\* Selection before it.
C3_ChangeIffSelectionDiffers ==
  (ModeSet /\ Uncontrolled /\ ClickDone /\ props.onChange) =>
    (Invoked("onChange") # {} <=> Selection(state.checked) # Selection(pre))

\* C4: in a controlled group with a mode set no click writes state.checked or
\* queues a setState, the children decorated as checked are those of the
\* supplied value, and every click invokes onChange.
C4_ControlledFrozen ==
  (ModeSet /\ Controlled) =>
    /\ state.checked = initial
    /\ pc = "idle"
    /\ CheckedChildren = Selection(props.checked) \cap ChildIndices
    /\ (idx # -1 /\ props.onChange) => Cardinality(Invoked("onChange")) = 1

C4_Witness ==
  /\ props.mode = "radio" /\ Controlled /\ ClickDone
  /\ idx \in Selection(props.checked)
  /\ Selection(state.checked) # Selection(props.checked)
  /\ Invoked("onChange") # {}

\* C5: with no mode set no click changes state.checked and onChange is never
\* invoked, controlled or not.
C5_NoModeInert ==
  props.mode = "none" =>
    /\ state.checked = initial
    /\ pc = "idle"
    /\ Invoked("onChange") = {}

C5_Witness ==
  /\ props.mode = "none" /\ ClickDone
  /\ props.onChange /\ props.onClick
  /\ Len(calls) = 1 /\ calls[1].cb = "onClick"

\* C6: the initial Selection of an uncontrolled group is the group-level
\* defaultChecked whenever one is supplied, index 0 included; otherwise it is
\* every default-checked child in checkbox mode, the first default-checked
\* child in radio mode, and empty when no child is default-checked.
C6_InitialSelection ==
  LET flagged == {i \in 0..(Len(mounted) - 1) : mounted[i + 1].defaultChecked}
  IN  Uncontrolled =>
        /\ props.defaultChecked.t # "undef" =>
             Selection(initial) = Selection(props.defaultChecked)
        /\ (props.defaultChecked.t = "undef" /\ props.mode = "checkbox") =>
             Selection(initial) = flagged
        /\ (props.defaultChecked.t = "undef" /\ props.mode = "radio") =>
             Selection(initial) =
               IF flagged = {} THEN {}
               ELSE {CHOOSE i \in flagged : \A j \in flagged : i <= j}

\* C7: in radio mode the resolved Selection has at most one member and at
\* most one child is decorated as checked, in every reachable state.
C7_RadioAtMostOne ==
  props.mode = "radio" =>
    /\ Cardinality(ResolvedSelection) <= 1
    /\ Cardinality(CheckedChildren) <= 1

\* C8: every index in the resolved Selection is an index of a current child,
\* also after children have been removed.
C8_IndicesValid == ResolvedSelection \subseteq ChildIndices

\* C9: in an uncontrolled group, whenever onChange has fired for a click,
\* the state.checked it observed is the committed post-click value.
C9_CallbackSeesCommit ==
  (ModeSet /\ Uncontrolled) =>
    \A k \in Invoked("onChange") :
      /\ pc = "idle"
      /\ calls[k].seen = state.checked
      /\ Selection(calls[k].seen) =
           IF props.mode = "checkbox" THEN SymDiff(Selection(pre), {idx}) ELSE {idx}

C9_Witness ==
  /\ ModeSet /\ Uncontrolled /\ ClickDone
  /\ \E k \in Invoked("onChange") :
       /\ calls[k].seen # pre
       /\ Selection(pre) # {}

\* C10: a completed click has invoked onClick exactly once in every mode and
\* ownership, changed or not, and before any onChange.
C10_ClickOnceFirst ==
  props.onClick =>
    /\ Cardinality(Invoked("onClick")) <= 1
    /\ ClickDone => Cardinality(Invoked("onClick")) = 1
    /\ \A k \in Invoked("onChange") : \E j \in Invoked("onClick") : j < k

C10_Witness ==
  /\ ClickDone /\ props.onClick /\ props.onChange
  /\ Len(calls) = 2
  /\ calls[1].cb = "onClick" /\ calls[2].cb = "onChange"
  /\ Uncontrolled /\ props.mode = "checkbox"

\* C11: for every child the decorated variant is the child's own variant
\* when the child sets one, and the group-level variant only when the child
\* sets none.
C11_ChildVariantWins ==
  \A i \in ChildIndices :
    decorate(props, state, i).variant =
      IF props.children[i + 1].variant # "none"
        THEN props.children[i + 1].variant
        ELSE props.variant

\* C12: for every child i, with a mode set the aria-checked flag is true iff
\* i is a member of the resolved Selection (a single index or an array), the
\* child is given primary iff it is checked, and its role is the mode; with
\* no mode the child gets no aria-checked, no role and no primary.
C12_CheckedIffMember ==
  \A i \in ChildIndices :
    LET d == decorate(props, state, i)
    IN  /\ ModeSet =>
              /\ d.ariaChecked = (IF i \in ResolvedSelection THEN "true" ELSE "false")
              /\ d.primary <=> i \in ResolvedSelection
              /\ d.role = props.mode
        /\ ~ModeSet =>
              (d.ariaChecked = "absent" /\ d.role = "absent" /\ ~d.primary)

C12_Witness ==
  /\ props.mode = "checkbox" /\ Uncontrolled /\ ClickDone
  /\ Len(props.children) = 2
  /\ IsArray(state.checked) /\ Len(state.checked.a) = 2
  /\ decorate(props, state, 0).primary /\ decorate(props, state, 1).primary
  /\ \E k \in 1..Len(calls) : calls[k].seen # pre

\* C13: a child is decorated disabled iff the group's disabled flag or the
\* child's own is set; while the group's flag is set every child is decorated
\* disabled, no click reaches the handler and state.checked keeps its
\* initial value.
C13_DisabledGroupInert ==
  /\ \A i \in ChildIndices :
       decorate(props, state, i).disabled <=>
         (props.disabled \/ props.children[i + 1].disabled)
  /\ props.disabled =>
       /\ \A i \in ChildIndices : decorate(props, state, i).disabled
       /\ state.checked = initial
       /\ idx = -1 /\ calls = <<>> /\ pc = "idle"

C13_Witness ==
  /\ props.disabled /\ ModeSet /\ Uncontrolled
  /\ Len(props.children) < Len(mounted)
  /\ \E i \in ChildIndices :
       ~props.children[i + 1].disabled /\ decorate(props, state, i).disabled

====
